---- MODULE Spec2Model ----
(***************************************************************************)
(* Excel Mock Interviewer: the grading client (src/app.py), the grading    *)
(* server (src/api/server.py) and the Streamlit session that drives them.  *)
(*                                                                         *)
(* Text is a sequence of chunks (strings).  Text that the code only moves  *)
(* around is one chunk; text the code lowercases, strips or searches is    *)
(* one chunk per character.  String concatenation is \o.                   *)
(***************************************************************************)
EXTENDS Integers, Sequences, FiniteSets, TLC

(***************************************************************************)
(* Bounds of the model.                                                    *)
(***************************************************************************)
\* longest canonical / alternative answer of a generated fill-blank question
MaxAnsLen == 2
\* longest submission typed into a generated fill-blank question
MaxSubLen == 3
\* number of leading questions of QUESTION_BANK a session asks
NumQuestions == 3
\* how far past the deadline the clock is followed while a timer runs
MaxOverrun == 5
\* the time between two looks at the clock
TickStep == 8
\* longest text, in tokens, the model returns to the grading server
MaxTokens == 4
\* longest transcript given to generate_summary_report
MaxTranscript == 3
\* largest average given to overall_rating, in hundredths
MaxAverage == 500
\* largest limit, and the negative of the least, of a request to GET /questions
MaxLimit == 60
\* the latest clock reading at which a session is started
MaxStartClock == 0

(***************************************************************************)
(* Python helpers.                                                         *)
(***************************************************************************)
Range(s) == {s[i] : i \in DOMAIN s}

\* dict.get(key, default)
Get(d, k, default) == IF k \in DOMAIN d THEN d[k] ELSE default

Max(a, b) == IF a >= b THEN a ELSE b

Min(a, b) == IF a <= b THEN a ELSE b

UpperToLower ==
  [A |-> "a", B |-> "b", C |-> "c", D |-> "d", E |-> "e", F |-> "f", G |-> "g",
   H |-> "h", I |-> "i", J |-> "j", K |-> "k", L |-> "l", M |-> "m", N |-> "n",
   O |-> "o", P |-> "p", Q |-> "q", R |-> "r", S |-> "s", T |-> "t", U |-> "u",
   V |-> "v", W |-> "w", X |-> "x", Y |-> "y", Z |-> "z"]

\* str.lower() on one character
LowerChar(c) == IF c \in DOMAIN UpperToLower THEN UpperToLower[c] ELSE c

\* str.lower()
Lower(s) == [i \in DOMAIN s |-> LowerChar(s[i])]

IsSpace(c) == c = " "

\* str.strip(): drop the leading and the trailing whitespace
Strip(s) ==
  LET nonblank == {i \in DOMAIN s : ~IsSpace(s[i])}
  IN  IF nonblank = {} THEN <<>>
      ELSE LET lo == CHOOSE i \in nonblank : \A j \in nonblank : i <= j
               hi == CHOOSE i \in nonblank : \A j \in nonblank : i >= j
           IN  SubSeq(s, lo, hi)

\* the Python operator `sub in s` on strings
Contains(s, sub) ==
  \E i \in 1..(Len(s) - Len(sub) + 1) : SubSeq(s, i, i + Len(sub) - 1) = sub

\* sequence[index] with Python's negative indices; ok = FALSE is IndexError
PyIndex(s, i) ==
  IF i >= 0 /\ i < Len(s) THEN [ok |-> TRUE, val |-> s[i + 1]]
  ELSE IF i < 0 /\ -i <= Len(s) THEN [ok |-> TRUE, val |-> s[Len(s) + i + 1]]
  ELSE [ok |-> FALSE, val |-> <<>>]

RECURSIVE ListsUpTo(_, _)
\* every list of at most n of the items
ListsUpTo(items, n) ==
  IF n = 0 THEN {<<>>}
  ELSE LET shorter == ListsUpTo(items, n - 1)
       IN  shorter \cup {Append(t, i) : t \in {u \in shorter : Len(u) = n - 1},
                                        i \in items}

RECURSIVE PickUpTo(_, _, _)
\* the values at the places, in their order, among the first n
PickUpTo(values, places, n) ==
  IF n = 0 THEN <<>>
  ELSE IF n \in places THEN Append(PickUpTo(values, places, n - 1), values[n])
  ELSE PickUpTo(values, places, n - 1)

(***************************************************************************)
(* JSON values a response can carry under the key "score".                 *)
(*   int     the integer val                                               *)
(*   float   val + frac/10 with frac in 1..9                               *)
(*   numstr  the decimal string of the integer val, such as "4"            *)
(*   str     a string that is no number, such as "high"                    *)
(*   null    JSON null                                                     *)
(***************************************************************************)
JInt(n) == [kind |-> "int", val |-> n, frac |-> 0]

JFloat(n, f) == [kind |-> "float", val |-> n, frac |-> f]

JNumStr(n) == [kind |-> "numstr", val |-> n, frac |-> 0]

JStr == [kind |-> "str", val |-> 0, frac |-> 0]

JNull == [kind |-> "null", val |-> 0, frac |-> 0]

\* int(v): truncates a float, parses a decimal string, raises ValueError on
\* another string and TypeError on None (ok = FALSE)
PyInt(v) ==
  IF v.kind \in {"int", "float", "numstr"} THEN [ok |-> TRUE, val |-> v.val]
  ELSE [ok |-> FALSE, val |-> 0]

(***************************************************************************)
(* The grader of the Streamlit client: grade_answer.                       *)
(* A result is the returned (score, feedback) pair, or the exception that  *)
(* leaves the function.                                                    *)
(***************************************************************************)
Return(score, feedback) ==
  [score |-> score, feedback |-> feedback, raised |-> "none"]

Raise(exc) == [score |-> 0, feedback |-> <<>>, raised |-> exc]

\* the length above which the fallback calls an answer a good attempt
FALLBACK_LENGTH == 50

\* FallbackGrade with the threshold compared by >= instead of >
FallbackGradeAtLeast(answer) ==
  IF Len(answer) >= FALLBACK_LENGTH
  THEN [score |-> 3, feedback |-> <<"Good attempt. Consider being more specific.">>,
        raised |-> "none"]
  ELSE [score |-> 2, feedback |-> <<"Answer needs more detail and explanation.">>,
        raised |-> "none"]

\* the except branch of grade_answer
FallbackGrade(answer) ==
  IF Len(answer) > FALLBACK_LENGTH
  THEN Return(3, <<"Good attempt. Consider being more specific.">>)
  ELSE Return(2, <<"Answer needs more detail and explanation.">>)

\* GradeMcq naming the selected option instead of the correct one
GradeMcqNamesSelected(question, answer) ==
  LET correct_idx == Get(question, "correct", -1)
      selected_idx == answer
  IN  IF selected_idx = correct_idx
      THEN Return(5, <<"Correct! Well done.">>)
      ELSE Return(2, <<"Incorrect. The correct answer was: ">>
                       \o PyIndex(question["options"], selected_idx).val)

\* the question_type == "mcq" branch; answer is the selected index
GradeMcq(question, answer) ==
  LET correct_idx == Get(question, "correct", -1)
      selected_idx == answer
  IN  IF selected_idx = correct_idx
      THEN Return(5, <<"Correct! Well done.">>)
      ELSE IF "options" \notin DOMAIN question THEN Raise("KeyError")
      ELSE LET opt == PyIndex(question["options"], correct_idx)
           IN  IF ~opt.ok THEN Raise("IndexError")
               ELSE Return(2, <<"Incorrect. The correct answer was: ">> \o opt.val)

\* GradeFillBlank comparing the submission without lowercasing it
GradeFillBlankCaseSensitive(question, answer) ==
  LET correct == Strip(Lower(Get(question, "answer", <<>>)))
      alternatives == Get(question, "alternative_answers", <<>>)
      user_answer == Strip(answer)
  IN  IF \/ user_answer = correct
         \/ \E i \in DOMAIN alternatives :
              user_answer = Strip(Lower(alternatives[i]))
      THEN Return(5, <<"Correct! Perfect answer.">>)
      ELSE IF \/ Contains(user_answer, correct)
              \/ \E i \in DOMAIN alternatives :
                   Contains(user_answer, alternatives[i])
      THEN Return(3, <<"Partially correct. Close, but not exact.">>)
      ELSE Return(1, <<"Incorrect. The answer was: ">>
                       \o Get(question, "answer", <<"None">>))

\* the question_type == "fill_blank" branch; answer is the typed text
GradeFillBlank(question, answer) ==
  LET correct == Strip(Lower(Get(question, "answer", <<>>)))
      alternatives == Get(question, "alternative_answers", <<>>)
      user_answer == Strip(Lower(answer))
  IN  IF \/ user_answer = correct
         \/ \E i \in DOMAIN alternatives :
              user_answer = Strip(Lower(alternatives[i]))
      THEN Return(5, <<"Correct! Perfect answer.">>)
      ELSE IF \/ Contains(user_answer, correct)
              \/ \E i \in DOMAIN alternatives :
                   Contains(user_answer, alternatives[i])
      THEN Return(3, <<"Partially correct. Close, but not exact.">>)
      ELSE Return(1, <<"Incorrect. The answer was: ">>
                       \o Get(question, "answer", <<"None">>))

(***************************************************************************)
(* What requests.post(API_BASE + "/grade", timeout=30) can do:             *)
(*   timeout  no answer within GRADE_TIMEOUT: requests.Timeout is raised   *)
(*   error    the connection fails: requests.ConnectionError is raised     *)
(*   http     a response arrives; ok is resp.ok, body is what resp.json()  *)
(*            meets: no JSON at all, a JSON list, or a JSON object         *)
(***************************************************************************)
GRADE_TIMEOUT == 30

HttpFailure(kind) == [kind |-> kind]

\* the seconds a call with this outcome keeps the script waiting: the whole
\* timeout when it times out; a call that is answered takes no modelled time
CallDuration(resp) == IF resp.kind = "timeout" THEN GRADE_TIMEOUT ELSE 0

HttpResponse(ok, body) == [kind |-> "http", ok |-> ok, body |-> body]

NonJsonBody == [kind |-> "nonjson"]

JsonListBody == [kind |-> "list"]

JsonObjectBody(data) == [kind |-> "dict", data |-> data]

\* GradeViaService without the try/except around the call
GradeViaServiceUncaught(answer, resp) ==
  IF resp.kind # "http" THEN Raise("RequestException")
  ELSE IF resp.ok
  THEN IF resp.body.kind = "nonjson" THEN Raise("JSONDecodeError")
       ELSE IF resp.body.kind # "dict" THEN Raise("AttributeError")
       ELSE LET data == resp.body.data
                score == PyInt(Get(data, "score", JInt(0)))
            IN  IF ~score.ok THEN Raise("ValueError")
                ELSE Return(score.val, Get(data, "feedback", <<>>))
  ELSE Return(2, <<"Answer evaluated.">>)

\* the branch of grade_answer for every other question type
GradeViaService(answer, resp) ==
  IF resp.kind # "http" THEN FallbackGrade(answer)
  ELSE IF resp.ok
  THEN IF resp.body.kind # "dict" THEN FallbackGrade(answer)
       ELSE LET data == resp.body.data
                score == PyInt(Get(data, "score", JInt(0)))
            IN  IF ~score.ok THEN FallbackGrade(answer)
                ELSE Return(score.val, Get(data, "feedback", <<>>))
  ELSE Return(2, <<"Answer evaluated.">>)

grade_answer(question, answer, question_type, resp) ==
  IF question_type = "mcq" THEN GradeMcq(question, answer)
  ELSE IF question_type = "fill_blank" THEN GradeFillBlank(question, answer)
  ELSE GradeViaService(answer, resp)

(***************************************************************************)
(* Inputs of the grader, drawn from bounded sets.                          *)
(***************************************************************************)
OptionTexts == << <<"A">>, <<"B">>, <<"C">>, <<"D">> >>

\* every MCQ question over a prefix of OptionTexts with a valid correct index
McqQuestions ==
  {[text |-> <<"Pick one">>, type |-> "mcq", options |-> SubSeq(OptionTexts, 1, n),
    correct |-> c, level |-> "basic"] :
     <<n, c>> \in {nc \in (1..Len(OptionTexts)) \X (0..Len(OptionTexts) - 1) :
                     nc[2] < nc[1]}}

FillChars == {"a", "A", "b", " "}

\* every text over FillChars of at most n characters
RECURSIVE TextsUpTo(_)
TextsUpTo(n) ==
  IF n = 0 THEN {<<>>}
  ELSE LET shorter == TextsUpTo(n - 1)
       IN  shorter \cup {Append(t, c) : t \in {u \in shorter : Len(u) = n - 1},
                                        c \in FillChars}

\* answers a fill-blank question can declare: texts that are not empty and
\* carry no surrounding whitespace, in any letter casing
AnswerTexts == {t \in TextsUpTo(MaxAnsLen) : t # <<>> /\ Strip(t) = t}

\* every fill-blank question with such an answer and at most one alternative
FillBlankQuestions ==
  {[text |-> <<"Fill in">>, type |-> "fill_blank", answer |-> a, level |-> "basic"] :
     a \in AnswerTexts}
  \cup
  {[text |-> <<"Fill in">>, type |-> "fill_blank", answer |-> a,
    alternative_answers |-> <<alt>>, level |-> "basic"] :
     a \in AnswerTexts, alt \in AnswerTexts}

Submissions == TextsUpTo(MaxSubLen)

TextQuestion == [text |-> <<"Explain">>, type |-> "text", level |-> "advanced"]

\* a short answer, one of exactly FALLBACK_LENGTH characters and a longer one
ShortAnswer == <<"i", "d", "k">>

BoundaryAnswer == [i \in 1..FALLBACK_LENGTH |-> "x"]

LongAnswer == [i \in 1..(FALLBACK_LENGTH + 1) |-> "x"]

TextAnswers == {ShortAnswer, BoundaryAnswer, LongAnswer}

\* the integers a response of the grading service may carry as its score
ServiceScores == (0 - 2)..7

ServiceFeedback == <<"Solid answer.">>

JsonScores ==
  {JInt(n) : n \in ServiceScores} \cup {JFloat(3, 7), JNumStr(4), JStr, JNull}

JsonObjects ==
  {[detail |-> <<"Not Found">>], [feedback |-> ServiceFeedback]}
  \cup {[score |-> v] : v \in JsonScores}
  \cup {[score |-> v, feedback |-> ServiceFeedback] : v \in JsonScores}

HttpBodies == {NonJsonBody, JsonListBody} \cup {JsonObjectBody(d) : d \in JsonObjects}

HttpOutcomes ==
  {HttpFailure("timeout"), HttpFailure("error")}
  \cup {HttpResponse(ok, b) : ok \in BOOLEAN, b \in HttpBodies}

\* the response of a call that is never made (MCQ and fill-blank)
NoCall == HttpFailure("nocall")

(***************************************************************************)
(* The grading server (src/api/server.py).                                 *)
(*                                                                         *)
(* The text the model returns is a sequence of tokens: an opening brace, a *)
(* closing brace, the members of a JSON object (what stands between the    *)
(* braces of an object without nested objects), or other text.             *)
(***************************************************************************)
LBrace == [tok |-> "lbrace"]

RBrace == [tok |-> "rbrace"]

OtherText == [tok |-> "other"]

Members(data) == [tok |-> "members", data |-> data]

\* a JSON object without members
EmptyObject == <<>>

\* re.search(r"\{[\s\S]*\}", text): the leftmost opening brace and, the
\* star being greedy, the last closing brace after it
BraceSearch(text) ==
  LET opens == {i \in DOMAIN text : text[i] = LBrace}
      closes == {j \in DOMAIN text : text[j] = RBrace}
  IN  IF opens = {} THEN [found |-> FALSE, group |-> <<>>]
      ELSE LET lo == CHOOSE i \in opens : \A k \in opens : i <= k
               after == {j \in closes : j > lo}
           IN  IF after = {} THEN [found |-> FALSE, group |-> <<>>]
               ELSE LET hi == CHOOSE j \in after : \A k \in after : j >= k
                    IN  [found |-> TRUE, group |-> SubSeq(text, lo, hi)]

\* json.loads on the matched text; ok = FALSE is JSONDecodeError
JsonLoads(group) ==
  IF Len(group) = 2 /\ group[1] = LBrace /\ group[2] = RBrace
  THEN [ok |-> TRUE, data |-> EmptyObject]
  ELSE IF /\ Len(group) = 3
          /\ group[1] = LBrace
          /\ group[2].tok = "members"
          /\ group[3] = RBrace
  THEN [ok |-> TRUE, data |-> group[2].data]
  ELSE [ok |-> FALSE, data |-> EmptyObject]

\* max(0, min(5, score))
ClampScore(score) == Max(0, Min(5, score))

\* os.getenv("GEMINI_API_KEY") with the `if not GEMINI_API_KEY` that follows
LoadApiKey(env) == IF env.set /\ env.value # "" THEN env.value ELSE ""

\* what a call of the model does: it raises, or it returns a text
ModelRaises == [kind |-> "raise"]

ModelReturns(text) == [kind |-> "text", text |-> text]

\* the dict grade_with_gemini returns; called tells whether the model was
\* called on the way
GeminiResult(score, feedback, called) ==
  [score |-> score, feedback |-> feedback, called |-> called]

\* grade_with_gemini that goes on to the model without looking at the key
grade_with_gemini_unchecked(key, outcome) ==
  IF outcome.kind = "raise"
  THEN GeminiResult(0, <<"Error grading: ", "model call failed">>, TRUE)
  ELSE LET match == BraceSearch(outcome.text)
       IN  IF match.found
           THEN LET parsed == JsonLoads(match.group)
                    score == PyInt(Get(parsed.data, "score", JInt(0)))
                IN  IF ~parsed.ok \/ ~score.ok
                    THEN GeminiResult(0, <<"Error grading: ", "bad payload">>, TRUE)
                    ELSE GeminiResult(ClampScore(score.val),
                                      Get(parsed.data, "feedback", <<>>), TRUE)
           ELSE GeminiResult(0, <<"Grader returned unexpected format.">>, TRUE)

grade_with_gemini(key, outcome) ==
  IF key = ""
  THEN GeminiResult(0, <<"No API key provided; cannot grade. Provide GEMINI_API_KEY.">>,
                    FALSE)
  ELSE IF outcome.kind = "raise"
  THEN GeminiResult(0, <<"Error grading: ", "model call failed">>, TRUE)
  ELSE LET match == BraceSearch(outcome.text)
       IN  IF match.found
           THEN LET parsed == JsonLoads(match.group)
                    score == PyInt(Get(parsed.data, "score", JInt(0)))
                IN  IF ~parsed.ok \/ ~score.ok
                    THEN GeminiResult(0, <<"Error grading: ", "bad payload">>, TRUE)
                    ELSE GeminiResult(ClampScore(score.val),
                                      Get(parsed.data, "feedback", <<>>), TRUE)
           ELSE GeminiResult(0, <<"Grader returned unexpected format.">>, TRUE)

\* POST /grade: the GradeResponse of the endpoint
grade(key, outcome) ==
  LET result == grade_with_gemini(key, outcome)
      score == Get(result, "score", 0)
      feedback == Get(result, "feedback", <<>>)
  IN  [score |-> ClampScore(score), feedback |-> feedback]

(***************************************************************************)
(* GET /questions of the server.                                           *)
(***************************************************************************)
ServerQuestion(id, level, text) == [id |-> id, level |-> level, text |-> text]

\* QUESTION_BANK of src/api/server.py
SERVER_QUESTION_BANK ==
  <<ServerQuestion(1, "basic",
      <<"Can you explain how VLOOKUP works and give a simple example?">>),
    ServerQuestion(2, "basic",
      <<"How can you use Conditional Formatting to highlight duplicate values?">>),
    ServerQuestion(3, "intermediate",
      <<"What is the difference between VLOOKUP and INDEX-MATCH?">>),
    ServerQuestion(4, "intermediate",
      <<"How would you create a PivotTable to summarize monthly sales by product?">>),
    ServerQuestion(5, "advanced",
      <<"What are Excel Macros, and when would you use them?">>),
    ServerQuestion(6, "advanced",
      <<"Describe how you would use Power Query to clean and merge data from multiple sources.">>),
    ServerQuestion(7, "advanced",
      <<"Explain how to use XLOOKUP and its advantages over VLOOKUP.">>)>>

\* ["basic", "intermediate", "advanced"].index(level)
LevelIndex(level) ==
  IF level = "basic" THEN 0 ELSE IF level = "intermediate" THEN 1 ELSE 2

\* the items of a list whose key is k, in their order
WithKey(list, k) ==
  PickUpTo(list, {i \in DOMAIN list : LevelIndex(list[i].level) = k}, Len(list))

\* sorted(list, key=...): stable, the items of a lower key first
SortedByLevel(list) == WithKey(list, 0) \o WithKey(list, 1) \o WithKey(list, 2)

\* list[:stop], with Python's negative stop
SliceTo(list, stop) ==
  IF stop >= 0 THEN SubSeq(list, 1, Min(stop, Len(list)))
  ELSE SubSeq(list, 1, Max(0, Len(list) + stop))

\* the stop of a listing that takes the limit as it comes
ListingStopUnclamped(limit) == limit

\* max(5, min(7, limit))
ListingStop(limit) == Max(5, Min(7, limit))

get_questions(limit) == SliceTo(SortedByLevel(SERVER_QUESTION_BANK), ListingStop(limit))

(***************************************************************************)
(* Inputs of the grading server, drawn from bounded sets.                  *)
(***************************************************************************)
\* the environment variable GEMINI_API_KEY: unset, empty or set
EnvKeys ==
  {[set |-> FALSE, value |-> ""], [set |-> TRUE, value |-> ""],
   [set |-> TRUE, value |-> "secret"]}

\* the members the generated texts are built from
TokenMembers ==
  {[score |-> JInt(3), feedback |-> ServiceFeedback],
   [score |-> JInt(9)],
   [feedback |-> ServiceFeedback]}

Tokens == {LBrace, RBrace, OtherText} \cup {Members(m) : m \in TokenMembers}

\* the texts of the model: every short text, and one JSON object for every
\* score a JSON document can carry
ModelTexts ==
  ListsUpTo(Tokens, MaxTokens) \cup {<<LBrace, Members(m), RBrace>> : m \in JsonObjects}

ModelOutcomes == {ModelRaises} \cup {ModelReturns(t) : t \in ModelTexts}

(***************************************************************************)
(* The report of the Streamlit client: generate_summary_report, and the    *)
(* rating of the PDF report: overall_rating (src/report_generator.py).     *)
(*                                                                         *)
(* average_score is kept in hundredths and time_efficiency in tenths of a  *)
(* percent, the digits round() leaves.                                     *)
(***************************************************************************)
\* the seconds a question may take
TIME_LIMIT == 15

\* round(num / den, digits) scaled to an integer: the nearest integer to
\* num / den, the even one of two that are equally near (den > 0).  Python
\* rounds the float nearest to the quotient, which is the same wherever the
\* quotient is not half way between two results.
RoundTruncating(num, den) == num \div den

RoundHalfEven(num, den) ==
  LET q == num \div den
      r == num - q * den
  IN  IF 2 * r < den THEN q
      ELSE IF 2 * r > den THEN q + 1
      ELSE IF q % 2 = 0 THEN q ELSE q + 1

RECURSIVE SumOver(_, _)
\* sum(f(item) for item in qa_list); f is a function on the items' places
SumOver(values, n) == IF n = 0 THEN 0 ELSE values[n] + SumOver(values, n - 1)

\* the characters of a question a report entry shows
PREVIEW_LENGTH == 50

\* f"{item.get('question', '')[:50]}..."
Preview(item) ==
  LET question == Get(item, "question", <<>>)
  IN  SubSeq(question, 1, Min(PREVIEW_LENGTH, Len(question))) \o <<"...">>

IsStrengthAbove(score) == score > 4

\* item.get("score", 0) >= 4
IsStrength(score) == score >= 4

\* the elif: item.get("score", 0) <= 2
IsWeakness(score) == ~IsStrength(score) /\ score <= 2

RECURSIVE Strengths(_)
Strengths(qa_list) ==
  IF qa_list = <<>> THEN <<>>
  ELSE LET item == qa_list[Len(qa_list)]
           before == Strengths(SubSeq(qa_list, 1, Len(qa_list) - 1))
       IN  IF IsStrength(Get(item, "score", 0)) THEN Append(before, Preview(item))
           ELSE before

RECURSIVE Weaknesses(_)
Weaknesses(qa_list) ==
  IF qa_list = <<>> THEN <<>>
  ELSE LET item == qa_list[Len(qa_list)]
           before == Weaknesses(SubSeq(qa_list, 1, Len(qa_list) - 1))
       IN  IF IsWeakness(Get(item, "score", 0)) THEN Append(before, Preview(item))
           ELSE before

\* a or b of two lists
Or(a, b) == IF a # <<>> THEN a ELSE b

LEARNING_PATH ==
  <<<<"Master lookup functions: VLOOKUP, INDEX/MATCH, XLOOKUP">>,
    <<"Build complex PivotTables with calculated fields">>,
    <<"Learn Power Query for data transformation">>,
    <<"Practice data visualization and chart selection">>,
    <<"Develop VBA skills for automation">>>>

Report(strengths, weaknesses, learning_path, average_score, time_efficiency) ==
  [strengths |-> strengths, weaknesses |-> weaknesses,
   learning_path |-> learning_path, average_score |-> average_score,
   time_efficiency |-> time_efficiency]

PlaceholderReportBare ==
  Report(<<>>, <<>>, <<>>, 0, 0)

\* the report of a transcript without answers
PlaceholderReport ==
  Report(<<<<"No answers provided">>>>,
         <<<<"Provide answers to receive feedback">>>>,
         <<<<"Start with basic Excel tutorials and practice exercises.">>>>,
         0, 0)

generate_summary_report(qa_list) ==
  IF qa_list = <<>> THEN PlaceholderReport
  ELSE LET n == Len(qa_list)
           scores == [i \in 1..n |-> Get(qa_list[i], "score", 0)]
           times == [i \in 1..n |-> Get(qa_list[i], "time_taken", TIME_LIMIT)]
           total == SumOver(scores, n)
           total_time == SumOver(times, n)
       IN  Report(Or(Strengths(qa_list), <<<<"Good overall understanding">>>>),
                  Or(Weaknesses(qa_list),
                     <<<<"Room for improvement in advanced topics">>>>),
                  LEARNING_PATH,
                  \* round(avg, 2), avg = total / n
                  RoundHalfEven(100 * total, n),
                  \* round((15 - avg_time) / 15 * 100, 1), avg_time = total_time / n
                  RoundHalfEven(1000 * (TIME_LIMIT * n - total_time), TIME_LIMIT * n))

overall_rating_strict(avg) ==
  IF avg > 450 THEN "Outstanding (Top 5%)"
  ELSE IF avg > 400 THEN "Excellent (Top 15%)"
  ELSE IF avg > 350 THEN "Strong (Above Average)"
  ELSE IF avg > 300 THEN "Competent (Average)"
  ELSE IF avg > 200 THEN "Developing (Below Average)"
  ELSE "Needs Improvement (Bottom 20%)"

\* avg is in hundredths
overall_rating(avg) ==
  IF avg >= 450 THEN "Outstanding (Top 5%)"
  ELSE IF avg >= 400 THEN "Excellent (Top 15%)"
  ELSE IF avg >= 350 THEN "Strong (Above Average)"
  ELSE IF avg >= 300 THEN "Competent (Average)"
  ELSE IF avg >= 200 THEN "Developing (Below Average)"
  ELSE "Needs Improvement (Bottom 20%)"

(***************************************************************************)
(* The breakdowns of the PDF report: analyze_performance_by_category,      *)
(* analyze_performance_by_difficulty and analyze_time_performance.         *)
(*                                                                         *)
(* A Python dict is a function on its keys, {} the function on no key.  A  *)
(* float that is the quotient of two integers is kept as the two integers. *)
(***************************************************************************)
\* num / den
Quotient(num, den) == [num |-> num, den |-> den]

\* sum(scores) / len(scores) if scores else 0
MeanOrZero(values) ==
  IF values = <<>> THEN Quotient(0, 1)
  ELSE Quotient(SumOver(values, Len(values)), Len(values))

\* the dict the loops build: for every key that occurs, the scores appended
\* under it, their count and their average
Groups(keys, scores) ==
  [k \in Range(keys) |->
     LET under == PickUpTo(scores, {i \in DOMAIN keys : keys[i] = k}, Len(keys))
     IN  [scores |-> under, count |-> Len(under), average |-> MeanOrZero(under)]]

\* any(word in question_text for word in words)
AnyWordIn(words, question_text) == \E word \in words : Contains(question_text, word)

\* the words of the categories, in the order of the if ... elif chain
CategoryWords ==
  <<[category |-> "lookup_functions", words |->
      {<<"v", "l", "o", "o", "k", "u", "p">>,
       <<"x", "l", "o", "o", "k", "u", "p">>,
       <<"i", "n", "d", "e", "x">>,
       <<"m", "a", "t", "c", "h">>}],
    [category |-> "pivot_tables", words |->
      {<<"p", "i", "v", "o", "t">>,
       <<"p", "i", "v", "o", "t", "t", "a", "b", "l", "e">>}],
    [category |-> "visualization", words |->
      {<<"c", "h", "a", "r", "t">>,
       <<"g", "r", "a", "p", "h">>,
       <<"v", "i", "s", "u", "a", "l", "i", "z", "a", "t", "i", "o", "n">>}],
    [category |-> "functions", words |->
      {<<"f", "o", "r", "m", "u", "l", "a">>,
       <<"f", "u", "n", "c", "t", "i", "o", "n">>}]>>

\* the category inferred from the question text: the first whose words it
\* holds, else 'general'
InferCategory(question) ==
  LET question_text == Lower(question)
      found == {k \in DOMAIN CategoryWords :
                  AnyWordIn(CategoryWords[k].words, question_text)}
  IN  IF found = {} THEN "general"
      ELSE CategoryWords[CHOOSE k \in found : \A other \in found : k <= other].category

\* the category of one Interaction: its tag, unless it has none or the tag
\* is empty or 'general'
CategoryOf(qa_item) ==
  LET category == Get(qa_item, "category", "general")
  IN  IF category = "" \/ category = "general"
      THEN InferCategory(Get(qa_item, "question", <<>>))
      ELSE category

analyze_performance_by_category(qa_list) ==
  IF qa_list = <<>> THEN <<>>
  ELSE Groups([i \in DOMAIN qa_list |-> CategoryOf(qa_list[i])],
              [i \in DOMAIN qa_list |-> Get(qa_list[i], "score", 0)])

analyze_performance_by_difficulty(qa_list) ==
  IF qa_list = <<>> THEN <<>>
  ELSE Groups([i \in DOMAIN qa_list |-> Get(qa_list[i], "level", "intermediate")],
              [i \in DOMAIN qa_list |-> Get(qa_list[i], "score", 0)])

\* the test of the comprehension: qa.get('time_taken') is truthy; None and
\* 0 are not
HasTime(qa_item) == Get(qa_item, "time_taken", 0) # 0

\* min(times) / max(times)
MinOf(values) == CHOOSE v \in Range(values) : \A w \in Range(values) : v <= w

MaxOf(values) == CHOOSE v \in Range(values) : \A w \in Range(values) : v >= w

analyze_time_performance(qa_list) ==
  IF qa_list = <<>> THEN <<>>
  ELSE LET all == [i \in DOMAIN qa_list |-> Get(qa_list[i], "time_taken", TIME_LIMIT)]
           times == PickUpTo(all, {i \in DOMAIN qa_list : HasTime(qa_list[i])},
                             Len(qa_list))
           total_time == IF times # <<>> THEN SumOver(times, Len(times)) ELSE 0
           avg_time == IF times # <<>> THEN Quotient(total_time, Len(times))
                       ELSE Quotient(0, 1)
           \* avg_time <= bound
           AtMost(bound) == avg_time.num <= bound * avg_time.den
       IN  [total_time |-> total_time,
            average_time_per_question |-> avg_time,
            time_efficiency |-> IF AtMost(10) THEN "Excellent"
                                ELSE IF AtMost(12) THEN "Good"
                                ELSE IF AtMost(14) THEN "Average"
                                ELSE "Needs Improvement",
            fastest_response |-> IF times # <<>> THEN MinOf(times) ELSE 0,
            slowest_response |-> IF times # <<>> THEN MaxOf(times) ELSE 0]

(***************************************************************************)
(* Inputs of the report functions, drawn from bounded sets.                *)
(***************************************************************************)
RECURSIVE Repeat(_, _)
\* a text of n characters c
Repeat(c, n) == IF n = 0 THEN <<>> ELSE Append(Repeat(c, n - 1), c)

ShortQuestion == <<"Q", "1">>

\* a question of exactly PREVIEW_LENGTH characters, and one a character longer
FittingQuestion == Repeat("f", 50)

LongQuestion == Repeat("l", 50) \o <<"!">>

TranscriptItem(question, score, time_taken) ==
  [question |-> question, answer |-> <<"an answer">>, score |-> score,
   feedback |-> ServiceFeedback, time_taken |-> time_taken]

\* the Interactions the transcripts are built from: every score, a time
\* over the budget, and an item without time_taken, for which the code
\* takes the whole budget
TranscriptItems ==
  {TranscriptItem(ShortQuestion, sc, 5) : sc \in 0..5}
  \cup {TranscriptItem(LongQuestion, 4, 20), TranscriptItem(FittingQuestion, 2, 0),
        TranscriptItem(LongQuestion, 0, 15)}
  \cup {[question |-> ShortQuestion, answer |-> <<"an answer">>, score |-> 5,
         feedback |-> ServiceFeedback]}

\* the Interactions the breakdowns are called on: with and without the
\* keys 'category', 'level' and 'time_taken', with a tag that is empty or
\* 'general', with a question that holds the words of several categories or
\* of none, with a time_taken of 0
AnalysisItems ==
  {[question |-> <<"V", "L", "O", "O", "K", "U", "P">>, score |-> 4, time_taken |-> 5],
   [question |-> <<"p", "i", "v", "o", "t">>, score |-> 2, time_taken |-> 0, level |-> "basic"],
   [question |-> <<"c", "h", "a", "r", "t">>, score |-> 5, time_taken |-> 10,
    category |-> "visualization", level |-> "advanced"],
   [question |-> <<"f", "o", "r", "m", "u", "l", "a">>, score |-> 3, time_taken |-> 15, category |-> "general"],
   [question |-> <<"s", "u", "m">>, score |-> 1, time_taken |-> 12, category |-> "custom"],
   [question |-> <<"m", "a", "t", "c", "h", " ", "f", "o", "r", "m", "u", "l", "a">>, score |-> 0, time_taken |-> 14],
   [question |-> <<"s", "u", "m">>, score |-> 5],
   [question |-> <<"g", "r", "a", "p", "h">>, score |-> 3, time_taken |-> 7, category |-> ""]}

(***************************************************************************)
(* The question bank of the Streamlit client.  The canonical and the       *)
(* alternative answers are compared by the grader, so they are texts of    *)
(* one chunk per character.                                                *)
(***************************************************************************)
QUESTION_BANK == <<
  [text |-> <<"What is the primary difference between VLOOKUP and XLOOKUP functions?">>,
   type |-> "mcq",
   options |-> << <<"XLOOKUP can only search left to right">>,
                  <<"XLOOKUP can search in both directions and has better error handling">>,
                  <<"VLOOKUP is faster than XLOOKUP">>,
                  <<"There is no difference">> >>,
   correct |-> 1,
   level |-> "intermediate"],
  [text |-> <<"Complete the formula: To sum values in cells A1 to A10 where corresponding B1 to B10 equals 'Sales', use =______(B1:B10,'Sales',A1:A10)">>,
   type |-> "fill_blank",
   answer |-> <<"S", "U", "M", "I", "F">>,
   level |-> "basic"],
  [text |-> <<"Analyze the sales data chart below. What is the trend and which month had the highest growth rate?">>,
   type |-> "visual_analysis",
   level |-> "advanced",
   visual_data |-> "sales_trend"],
  [text |-> <<"Which Excel function would you use to find the most frequently occurring value in a dataset?">>,
   type |-> "mcq",
   options |-> << <<"AVERAGE">>, <<"MEDIAN">>, <<"MODE.SNGL">>, <<"COUNT">> >>,
   correct |-> 2,
   level |-> "intermediate"],
  [text |-> <<"In PivotTables, the ______ area is used to aggregate numerical data.">>,
   type |-> "fill_blank",
   answer |-> <<"V", "A", "L", "U", "E", "S">>,
   level |-> "basic"],
  [text |-> <<"Look at the data table below. Create a PivotTable strategy to analyze product performance by region and quarter.">>,
   type |-> "data_analysis",
   level |-> "advanced"],
  [text |-> <<"What keyboard shortcut opens the 'Go To Special' dialog in Excel?">>,
   type |-> "mcq",
   options |-> << <<"Ctrl + G then Alt + S">>, <<"Ctrl + Shift + G">>,
                  <<"F5 then Alt + S">>, <<"Both A and C">> >>,
   correct |-> 3,
   level |-> "intermediate"],
  [text |-> <<"The Excel function =IF(A1>100,A1*0.1,A1*0.05) calculates a ______ based on the value in A1.">>,
   type |-> "fill_blank",
   answer |-> <<"c", "o", "m", "m", "i", "s", "s", "i", "o", "n">>,
   alternative_answers |-> << <<"d", "i", "s", "c", "o", "u", "n", "t">>,
                              <<"p", "e", "r", "c", "e", "n", "t", "a", "g", "e">>,
                              <<"r", "a", "t", "e">> >>,
   level |-> "intermediate"],
  [text |-> <<"Examine the scatter plot below showing sales vs. advertising spend. What type of relationship exists and what would be your recommendation?">>,
   type |-> "visual_analysis",
   level |-> "advanced",
   visual_data |-> "scatter_analysis"],
  [text |-> <<"Which of these is NOT a valid Excel chart type?">>,
   type |-> "mcq",
   options |-> << <<"Waterfall Chart">>, <<"Sunburst Chart">>,
                  <<"Treemap Chart">>, <<"Network Chart">> >>,
   correct |-> 3,
   level |-> "basic"] >>

\* the questions a session asks: the leading NumQuestions of the bank
\* the questions of a session whose MCQs name an option past the last
SessionQuestionsPastLast ==
  LET loaded == SubSeq(QUESTION_BANK, 1, Min(NumQuestions, Len(QUESTION_BANK)))
  IN  [i \in DOMAIN loaded |->
         IF loaded[i].type = "mcq"
         THEN [loaded[i] EXCEPT !.correct = Len(loaded[i].options)]
         ELSE loaded[i]]

SessionQuestions ==
  SubSeq(QUESTION_BANK, 1, Min(NumQuestions, Len(QUESTION_BANK)))

(***************************************************************************)
(* State.                                                                  *)
(*   stage .. answer_submitted   st.session_state of the client            *)
(*   now                         the wall clock, datetime.now()            *)
(*   button_enabled              whether the page shows an enabled         *)
(*                               "Submit Answer" button                    *)
(*   in_flight                   the grade_answer calls of the session     *)
(*                               that have been made and have not returned *)
(*   pdf_bytes .. selected_mcq   the other keys of st.session_state        *)
(*   g_in, g_out                 arguments and result of a grade_answer    *)
(*                               call made outside a session               *)
(*   GEMINI_API_KEY .. s_out     the grading server                        *)
(*   r_in .. rating              arguments and results of the report       *)
(*                               functions called outside a session        *)
(*   q_limit, q_out              a request to GET /questions and its list  *)
(*   a_in, a_out                 the transcript given to the breakdown     *)
(*                               functions and what they return            *)
(***************************************************************************)
VARIABLES stage, questions, current_index, qa, candidate, timer_start,
          time_remaining, answer_submitted, now, button_enabled, in_flight,
          pdf_bytes, pdf_name, followup_pending, followup_question,
          followup_for_index, selected_mcq,
          g_in, g_out,
          GEMINI_API_KEY, model_calls, s_in, s_out, r_in, r_out, avg_score,
          rating, q_limit, q_out, a_in, a_out

\* the PDF report kept in the session state
pdf_vars == <<pdf_bytes, pdf_name>>

\* the session keys init_state sets and no handler reads or writes
followup_vars == <<followup_pending, followup_question, followup_for_index,
                   selected_mcq>>

session_vars == <<stage, questions, current_index, qa, candidate, timer_start,
                  time_remaining, answer_submitted, now, button_enabled,
                  in_flight, pdf_bytes, pdf_name, followup_pending,
                  followup_question, followup_for_index, selected_mcq>>

grader_vars == <<g_in, g_out>>

\* the grading server: its credential, the calls it made to the model, the
\* outcome of the model call of a request and the response of the endpoint
server_vars == <<GEMINI_API_KEY, model_calls, s_in, s_out>>

\* the report: the transcript given to generate_summary_report and the
\* report it returns, the average given to overall_rating and its rating
report_vars == <<r_in, r_out, avg_score, rating>>

\* the question listing of the server: the limit of a request and the list
\* returned
listing_vars == <<q_limit, q_out>>

\* the breakdowns: the transcript given to the three functions and what
\* they return
analysis_vars == <<a_in, a_out>>

harness_vars == <<g_in, g_out, GEMINI_API_KEY, model_calls, s_in, s_out,
                  r_in, r_out, avg_score, rating, q_limit, q_out, a_in, a_out>>

vars == <<stage, questions, current_index, qa, candidate, timer_start,
          time_remaining, answer_submitted, now, button_enabled, in_flight,
          pdf_bytes, pdf_name, followup_pending, followup_question,
          followup_for_index, selected_mcq,
          g_in, g_out,
          GEMINI_API_KEY, model_calls, s_in, s_out, r_in, r_out, avg_score,
          rating, q_limit, q_out, a_in, a_out>>

\* Python's None in timer_start; clock readings are never negative
None == 0 - 1

\* pdf_bytes is None: no PDF report has been generated
NoPdf == [generated |-> FALSE]

\* pdf_name is None
NoPdfName == <<>>

\* the session state after init_state() on an empty st.session_state
init_state ==
  /\ stage = "intro"
  /\ questions = SessionQuestions
  /\ current_index = 0
  /\ qa = <<>>
  /\ candidate = [name |-> <<>>]
  /\ timer_start = None
  /\ time_remaining = TIME_LIMIT
  /\ answer_submitted = FALSE
  /\ pdf_bytes = NoPdf
  /\ pdf_name = NoPdfName
  /\ followup_pending = FALSE
  /\ followup_question = <<>>
  /\ followup_for_index = 0 - 1
  /\ selected_mcq = None

NoGradeCall == [question |-> TextQuestion, answer |-> <<>>, qtype |-> "none", resp |-> NoCall]

NoResult == Raise("notcalled")

\* no grade_answer call is made outside the session
GraderIdle == g_in = NoGradeCall /\ g_out = NoResult

NoRequest == ModelReturns(<<>>)

NoResponse == [score |-> 0 - 1, feedback |-> <<"no request">>]

\* the server is not configured and receives no request
ServerIdle ==
  /\ GEMINI_API_KEY = ""
  /\ model_calls = 0
  /\ s_in = NoRequest
  /\ s_out = NoResponse

\* the client before a session starts
SessionIdle ==
  /\ init_state
  /\ now = 0
  /\ button_enabled = FALSE
  /\ in_flight = <<>>

NoReport == [average_score |-> 0 - 1]

NoRating == "not rated"

\* no report function is called outside the session
ReportIdle ==
  /\ r_in = <<>>
  /\ r_out = NoReport
  /\ avg_score = 0
  /\ rating = NoRating

NoListing == <<[id |-> 0, level |-> "none", text |-> <<>>]>>

\* no request is made to GET /questions
ListingIdle == q_limit = 0 /\ q_out = NoListing

NoAnalysis == [called |-> FALSE]

\* no breakdown function is called outside the session
AnalysisIdle == a_in = <<>> /\ a_out = NoAnalysis

Init ==
  /\ SessionIdle
  /\ ListingIdle
  /\ AnalysisIdle
  /\ GraderIdle
  /\ ServerIdle
  /\ ReportIdle

(***************************************************************************)
(* The clock.  Only the time since timer_start is ever read, so the clock  *)
(* is followed while a timer runs, up to MaxOverrun past the deadline.     *)
(***************************************************************************)
\* ScriptBusy of a session whose runs do not wait for one another
ScriptBusyNever(calls) == FALSE

\* the script of the session is inside a handler: it made a call of
\* grade_answer, which blocks, and runs no st command before its st.rerun()
ScriptBusy(calls) == calls # <<>>

Tick ==
  /\ ~ScriptBusy(in_flight)
  /\ timer_start # None
  /\ now - timer_start < TIME_LIMIT + MaxOverrun
  /\ now' = now + TickStep
  /\ UNCHANGED <<stage, questions, current_index, qa, candidate, timer_start,
                 time_remaining, answer_submitted, button_enabled, in_flight>>
  /\ UNCHANGED harness_vars
  /\ UNCHANGED pdf_vars
  /\ UNCHANGED followup_vars

\* render_header without the max(0, ...)
render_header_unfloored(stg, start, clock, remaining) ==
  IF stg = "asking" /\ start # None
  THEN TIME_LIMIT - (clock - start)
  ELSE remaining

\* render_header: the time_remaining it leaves in the session state
render_header(stg, start, clock, remaining) ==
  IF stg = "asking" /\ start # None
  THEN Max(0, TIME_LIMIT - (clock - start))
  ELSE remaining

(***************************************************************************)
(* introduction: the candidate form is submitted with a name.              *)
(***************************************************************************)
CandidateNames == {<<>>, <<" ">>, <<" ", "A", "l", " ">>}

\* NameGiven of a form that starts the interview whatever the name
NameGivenAlways(name) == TRUE

\* if name.strip():
NameGiven(name) == Strip(name) # <<>>

introduction(name) ==
  /\ ~ScriptBusy(in_flight)
  /\ stage = "intro"
  /\ now <= MaxStartClock
  /\ candidate' = [name |-> Strip(name)]
  /\ IF NameGiven(name)
     THEN /\ stage' = "asking"
          /\ timer_start' = now
     ELSE UNCHANGED <<stage, timer_start>>
  /\ UNCHANGED <<questions, current_index, qa, time_remaining,
                 answer_submitted, now, button_enabled, in_flight>>
  /\ UNCHANGED harness_vars
  /\ UNCHANGED pdf_vars
  /\ UNCHANGED followup_vars

(***************************************************************************)
(* ask_questions.  One action is one run of main() in the stage "asking":  *)
(* init_state (which changes nothing), render_header, ask_questions, up to *)
(* the st.rerun() or the end of the script.                                *)
(***************************************************************************)
\* append of a list that puts the item in front
append_front(list, item) == <<item>> \o list

\* st.session_state[STATE_KEYS["qa"]].append(item)
append(list, item) == Append(list, item)

\* the placeholder the auto-submit appends
TimeoutInteraction(q) ==
  [question |-> Get(q, "text", <<>>),
   answer |-> <<"Time expired - No answer provided">>,
   score |-> 0,
   feedback |-> <<"Time ran out before answer was submitted.">>,
   time_taken |-> TIME_LIMIT]

\* AutoSubmitDue of a script that never auto-submits
AutoSubmitNever(remaining, submitted) == FALSE

\* the condition of the auto-submit
AutoSubmitDue(remaining, submitted) == remaining <= 0 /\ ~submitted

\* the disabled= argument of the "Submit Answer" button
SubmitDisabled(remaining, submitted) == submitted \/ remaining <= 0

\* NextIndex of a handler that forgets to advance
NextIndexStuck(idx) == idx

\* the index of the next question
NextIndex(idx) == idx + 1

\* AllAsked of a script that stops a question early
AllAskedEarly(idx, qs) == idx + 1 >= Len(qs)

\* if idx >= len(questions):
AllAsked(idx, qs) == idx >= Len(qs)

\* the run in which no button is pressed
ask_questions ==
  /\ ~ScriptBusy(in_flight)
  /\ stage = "asking"
  /\ LET remaining == render_header(stage, timer_start, now, time_remaining)
     IN  /\ time_remaining' = remaining
         /\ IF questions = <<>>
            THEN /\ button_enabled' = FALSE
                 /\ UNCHANGED <<stage, current_index, qa, timer_start, answer_submitted>>
            ELSE IF AllAsked(current_index, questions)
            THEN /\ stage' = "summary"
                 /\ button_enabled' = FALSE
                 /\ UNCHANGED <<current_index, qa, timer_start, answer_submitted>>
            ELSE LET fresh == timer_start = None
                     start == IF fresh THEN now ELSE timer_start
                     submitted == IF fresh THEN FALSE ELSE answer_submitted
                     q == questions[current_index + 1]
                 IN  /\ button_enabled' = ~SubmitDisabled(remaining, submitted)
                     /\ IF AutoSubmitDue(remaining, submitted)
                        THEN /\ qa' = append(qa, TimeoutInteraction(q))
                             /\ answer_submitted' = TRUE
                             /\ current_index' = NextIndex(current_index)
                             /\ timer_start' = None
                        ELSE /\ timer_start' = start
                             /\ answer_submitted' = submitted
                             /\ UNCHANGED <<current_index, qa>>
                     /\ UNCHANGED stage
  /\ UNCHANGED <<questions, candidate, now, in_flight>>
  /\ UNCHANGED harness_vars
  /\ UNCHANGED pdf_vars
  /\ UNCHANGED followup_vars

\* what a candidate types into a fill-blank question
FillTries(q) ==
  {<<" ">> \o Lower(q.answer) \o <<" ">>,
   q.answer \o <<" ", "f", "n">>,
   <<"n", "o">>}

\* the responses of the grading service a session meets
SessionOutcomes ==
  {HttpFailure("timeout"),
   HttpResponse(FALSE, JsonObjectBody([detail |-> <<"Not Found">>])),
   HttpResponse(TRUE, NonJsonBody),
   HttpResponse(TRUE, JsonObjectBody([score |-> JInt(4), feedback |-> ServiceFeedback])),
   HttpResponse(TRUE, JsonObjectBody([score |-> JInt(7), feedback |-> ServiceFeedback]))}

\* the widget values of a pressed "Submit Answer": the value handed to
\* grade_answer, the answer stored in the Interaction, the question_type
\* argument and the response of the grading service
SubmitTries(q) ==
  LET question_type == Get(q, "type", "text")
  IN  IF question_type = "mcq"
      THEN {[answer |-> i, stored |-> q.options[i + 1], qtype |-> "mcq", resp |-> NoCall] :
              i \in 0..(Len(Get(q, "options", <<>>)) - 1)}
      ELSE IF question_type = "fill_blank"
      THEN {[answer |-> a, stored |-> a, qtype |-> "fill_blank", resp |-> NoCall] :
              a \in FillTries(q)}
      ELSE {[answer |-> a, stored |-> a,
             qtype |-> IF question_type \in {"visual_analysis", "data_analysis"}
                       THEN "analysis" ELSE "text",
             resp |-> r] :
              a \in {ShortAnswer, LongAnswer}, r \in SessionOutcomes}

\* the Interaction a submission appends
Interaction(q, stored, graded, remaining) ==
  [question |-> Get(q, "text", <<>>),
   answer |-> stored,
   score |-> graded.score,
   feedback |-> graded.feedback,
   time_taken |-> TIME_LIMIT - remaining]

\* the run started by pressing "Submit Answer", up to its call of
\* grade_answer
ask_questions_submit ==
  /\ ~ScriptBusy(in_flight)
  /\ stage = "asking"
  /\ button_enabled
  /\ questions # <<>>
  /\ current_index < Len(questions)
  /\ LET remaining == render_header(stage, timer_start, now, time_remaining)
         fresh == timer_start = None
         start == IF fresh THEN now ELSE timer_start
         submitted == IF fresh THEN FALSE ELSE answer_submitted
         q == questions[current_index + 1]
     IN  /\ time_remaining' = remaining
         /\ button_enabled' = ~SubmitDisabled(remaining, submitted)
         /\ timer_start' = start
         /\ answer_submitted' = submitted
         /\ \E try \in SubmitTries(q) :
              in_flight' = Append(in_flight, [index |-> current_index, try |-> try])
  /\ UNCHANGED <<stage, questions, current_index, qa, candidate, now>>
  /\ UNCHANGED harness_vars
  /\ UNCHANGED pdf_vars
  /\ UNCHANGED followup_vars

\* the rest of that run: grade_answer returns or raises, and the handler
\* goes on to its st.rerun()
ask_questions_return ==
  /\ in_flight # <<>>
  /\ LET call == Head(in_flight)
         q == questions[call.index + 1]
         graded == grade_answer(q, call.try.answer, call.try.qtype, call.try.resp)
     IN  /\ now' = now + CallDuration(call.try.resp)
         /\ IF graded.raised # "none"
            THEN UNCHANGED <<current_index, qa, timer_start, answer_submitted>>
            ELSE /\ qa' = append(qa, Interaction(q, call.try.stored, graded,
                                                 time_remaining))
                 /\ answer_submitted' = TRUE
                 /\ current_index' = NextIndex(current_index)
                 /\ timer_start' = None
  /\ in_flight' = Tail(in_flight)
  /\ UNCHANGED <<stage, questions, candidate, time_remaining, button_enabled>>
  /\ UNCHANGED harness_vars
  /\ UNCHANGED pdf_vars
  /\ UNCHANGED followup_vars

(***************************************************************************)
(* summary_view: "Start New Interview" deletes every session key and       *)
(* reruns; the init_state() of that rerun rebuilds the state.              *)
(***************************************************************************)
\* the PDF report: the breakdowns it is built from
PdfReport(qa_list) ==
  [generated |-> TRUE,
   difficulty_analysis |-> analyze_performance_by_difficulty(qa_list),
   time_analysis |-> analyze_time_performance(qa_list)]

\* str.replace(' ', '_')
ReplaceSpaces(text) == [i \in DOMAIN text |-> IF text[i] = " " THEN "_" ELSE text[i]]

\* f"excel_interview_{candidate_name...}_{datetime.now().strftime('%Y%m%d')}.pdf"
PdfName(cand) ==
  LET name == Get(cand, "name", <<>>)
      candidate_name == IF name # <<>> THEN name ELSE <<"Candidate">>
  IN  <<"excel_interview_">> \o ReplaceSpaces(candidate_name)
        \o <<"_", "%Y%m%d", ".pdf">>

\* "Generate PDF Report" is pressed
summary_view_pdf ==
  /\ ~ScriptBusy(in_flight)
  /\ stage = "summary"
  /\ pdf_bytes' = PdfReport(qa)
  /\ pdf_name' = PdfName(candidate)
  /\ UNCHANGED <<stage, questions, current_index, qa, candidate, timer_start,
                 time_remaining, answer_submitted, now, button_enabled, in_flight>>
  /\ UNCHANGED followup_vars
  /\ UNCHANGED harness_vars

\* a key deleted and set again by init_state keeps its old value
ReinitKept(old, initial) == old

\* del st.session_state[k], then init_state() in the rerun
Reinit(old, initial) == initial

summary_view_restart ==
  /\ ~ScriptBusy(in_flight)
  /\ stage = "summary"
  /\ stage' = "intro"
  /\ questions' = SessionQuestions
  /\ current_index' = Reinit(current_index, 0)
  /\ qa' = Reinit(qa, <<>>)
  /\ candidate' = [name |-> <<>>]
  /\ timer_start' = None
  /\ time_remaining' = TIME_LIMIT
  /\ answer_submitted' = FALSE
  /\ button_enabled' = FALSE
  /\ pdf_bytes' = Reinit(pdf_bytes, NoPdf)
  /\ pdf_name' = Reinit(pdf_name, NoPdfName)
  /\ followup_pending' = FALSE
  /\ followup_question' = <<>>
  /\ followup_for_index' = 0 - 1
  /\ selected_mcq' = None
  /\ UNCHANGED <<now, in_flight>>
  /\ UNCHANGED harness_vars

(***************************************************************************)
(* A call of grade_answer on arguments drawn from the bounded sets.        *)
(***************************************************************************)
GradeCall ==
  /\ g_in.qtype # "none"
  /\ g_out = NoResult
  /\ g_out' = grade_answer(g_in.question, g_in.answer, g_in.qtype, g_in.resp)
  /\ UNCHANGED g_in
  /\ UNCHANGED session_vars
  /\ UNCHANGED listing_vars
  /\ UNCHANGED analysis_vars
  /\ UNCHANGED server_vars
  /\ UNCHANGED report_vars

McqInputs ==
  UNION {{[question |-> q, answer |-> a, qtype |-> "mcq", resp |-> NoCall] :
            a \in 0..(Len(q.options) - 1)} : q \in McqQuestions}

FillBlankInputs ==
  {[question |-> q, answer |-> a, qtype |-> "fill_blank", resp |-> NoCall] :
     q \in FillBlankQuestions, a \in Submissions}

TextInputs ==
  {[question |-> TextQuestion, answer |-> a, qtype |-> t, resp |-> r] :
     a \in TextAnswers, t \in {"text", "analysis"}, r \in HttpOutcomes}

InitGrade ==
  /\ SessionIdle
  /\ ListingIdle
  /\ AnalysisIdle
  /\ ServerIdle
  /\ ReportIdle
  /\ \/ g_in \in McqInputs
     \/ g_in \in FillBlankInputs
     \/ g_in \in TextInputs
  /\ g_out = NoResult

(***************************************************************************)
(* A request to POST /grade of a server started in some environment.       *)
(***************************************************************************)
GradeRequest ==
  /\ s_out = NoResponse
  /\ s_out' = grade(GEMINI_API_KEY, s_in)
  /\ model_calls' = model_calls
                      + (IF grade_with_gemini(GEMINI_API_KEY, s_in).called THEN 1 ELSE 0)
  /\ UNCHANGED <<GEMINI_API_KEY, s_in>>
  /\ UNCHANGED session_vars
  /\ UNCHANGED listing_vars
  /\ UNCHANGED analysis_vars
  /\ UNCHANGED grader_vars
  /\ UNCHANGED report_vars

InitServer ==
  /\ SessionIdle
  /\ ListingIdle
  /\ AnalysisIdle
  /\ GraderIdle
  /\ ReportIdle
  /\ \E env \in EnvKeys : GEMINI_API_KEY = LoadApiKey(env)
  /\ model_calls = 0
  /\ s_in \in ModelOutcomes
  /\ s_out = NoResponse

(***************************************************************************)
(* Specifications.                                                         *)
(***************************************************************************)
Next ==
  \/ Tick
  \/ \E name \in CandidateNames : introduction(name)
  \/ ask_questions
  \/ ask_questions_submit
  \/ ask_questions_return
  \/ summary_view_pdf
  \/ summary_view_restart

\* a session of the client
Spec == Init /\ [][Next]_vars

\* the reruns are scheduled by st.rerun() and the clock advances
\* and a call of grade_answer returns, after GRADE_TIMEOUT at the latest
FairSpec ==
  Spec /\ WF_vars(Tick) /\ WF_vars(ask_questions) /\ WF_vars(ask_questions_return)

NextGrade == GradeCall

\* grade_answer as a function of its arguments
SpecGrade == InitGrade /\ [][NextGrade]_vars

(***************************************************************************)
(* generate_summary_report called on a transcript, and the rating the PDF  *)
(* report gives to its average.                                            *)
(***************************************************************************)
ReportCall ==
  /\ r_out = NoReport
  /\ r_out' = generate_summary_report(r_in)
  /\ UNCHANGED <<r_in, avg_score, rating>>
  /\ UNCHANGED session_vars
  /\ UNCHANGED listing_vars
  /\ UNCHANGED analysis_vars
  /\ UNCHANGED grader_vars
  /\ UNCHANGED server_vars

\* avg_score = report.get('average_score', 0); rating = overall_rating(avg_score)
RateReport ==
  /\ r_out # NoReport
  /\ rating = NoRating
  /\ avg_score' = Get(r_out, "average_score", 0)
  /\ rating' = overall_rating(avg_score')
  /\ UNCHANGED <<r_in, r_out>>
  /\ UNCHANGED session_vars
  /\ UNCHANGED listing_vars
  /\ UNCHANGED analysis_vars
  /\ UNCHANGED grader_vars
  /\ UNCHANGED server_vars

InitReport ==
  /\ SessionIdle
  /\ ListingIdle
  /\ AnalysisIdle
  /\ GraderIdle
  /\ ServerIdle
  /\ r_in \in ListsUpTo(TranscriptItems, MaxTranscript)
  /\ r_out = NoReport
  /\ avg_score = 0
  /\ rating = NoRating

\* overall_rating called on an average
RateCall ==
  /\ rating = NoRating
  /\ rating' = overall_rating(avg_score)
  /\ UNCHANGED <<r_in, r_out, avg_score>>
  /\ UNCHANGED session_vars
  /\ UNCHANGED listing_vars
  /\ UNCHANGED analysis_vars
  /\ UNCHANGED grader_vars
  /\ UNCHANGED server_vars

InitRating ==
  /\ SessionIdle
  /\ ListingIdle
  /\ AnalysisIdle
  /\ GraderIdle
  /\ ServerIdle
  /\ r_in = <<>>
  /\ r_out = NoReport
  /\ avg_score \in 0..MaxAverage
  /\ rating = NoRating

(***************************************************************************)
(* A request to GET /questions.                                            *)
(***************************************************************************)
ListQuestions ==
  /\ q_out = NoListing
  /\ q_out' = get_questions(q_limit)
  /\ UNCHANGED q_limit
  /\ UNCHANGED session_vars
  /\ UNCHANGED analysis_vars
  /\ UNCHANGED grader_vars
  /\ UNCHANGED server_vars
  /\ UNCHANGED report_vars

InitQuestions ==
  /\ SessionIdle
  /\ AnalysisIdle
  /\ GraderIdle
  /\ ServerIdle
  /\ ReportIdle
  /\ q_limit \in (0 - MaxLimit)..MaxLimit
  /\ q_out = NoListing

(***************************************************************************)
(* The three breakdown functions called on a transcript, as the PDF report *)
(* calls them.                                                             *)
(***************************************************************************)
AnalyzeCall ==
  /\ ~a_out.called
  /\ a_out' = [called |-> TRUE,
               category_breakdown |-> analyze_performance_by_category(a_in),
               difficulty_analysis |-> analyze_performance_by_difficulty(a_in),
               time_analysis |-> analyze_time_performance(a_in)]
  /\ UNCHANGED a_in
  /\ UNCHANGED session_vars
  /\ UNCHANGED listing_vars
  /\ UNCHANGED grader_vars
  /\ UNCHANGED server_vars
  /\ UNCHANGED report_vars

InitAnalysis ==
  /\ SessionIdle
  /\ ListingIdle
  /\ GraderIdle
  /\ ServerIdle
  /\ ReportIdle
  /\ a_in \in ListsUpTo(AnalysisItems, MaxTranscript)
  /\ a_out = NoAnalysis

\* the grading server answering one request
SpecServer == InitServer /\ [][GradeRequest]_vars

\* get_questions as a function of the limit
SpecQuestions == InitQuestions /\ [][ListQuestions]_vars

\* the breakdowns as functions of the transcript
SpecAnalysis == InitAnalysis /\ [][AnalyzeCall]_vars

\* generate_summary_report as a function of the transcript
SpecReport == InitReport /\ [][ReportCall \/ RateReport]_vars

\* overall_rating as a function of the average
SpecRating == InitRating /\ [][RateCall]_vars

(***************************************************************************)
(* Properties.                                                             *)
(***************************************************************************)
\* grade_answer has been called and has returned or raised
Graded == g_out.raised # "notcalled"

\* the call went to the grading service
ViaService == g_in.qtype \in {"text", "analysis"}

\* the call to the service raised: timeout or connection failure
CallRaised(resp) == resp.kind \in {"timeout", "error"}

\* an answered call whose body cannot be used: no JSON, no JSON object, or
\* a score that int() rejects
MalformedPayload(resp) ==
  /\ resp.kind = "http"
  /\ resp.ok
  /\ \/ resp.body.kind # "dict"
     \/ /\ "score" \in DOMAIN resp.body.data
        /\ resp.body.data["score"].kind \in {"str", "null"}

\* an answered call with a status outside 2xx
NonOkStatus(resp) == resp.kind = "http" /\ ~resp.ok

\* an Interaction is the placeholder of the auto-submit
IsTimeoutPlaceholder(item) ==
  item.feedback = <<"Time ran out before answer was submitted.">>

\* C1: every score grade_answer returns is an integer in 0..5 on every
\* path, whatever score the response of the grading service carries.
C1_ScoreAlwaysInRange ==
  (Graded /\ g_out.raised = "none") => g_out.score \in 0..5

C3_OneInteractionPerQuestion ==
  /\ Len(qa) = current_index
  /\ \A i \in 1..Len(qa) :
       i <= Len(questions) /\ qa[i].question = questions[i].text

C3_Witness ==
  /\ Len(qa) >= 2
  /\ IsTimeoutPlaceholder(qa[Len(qa)])
  /\ ~IsTimeoutPlaceholder(qa[1])

\* a step appends the placeholder of the auto-submit
TimeoutAppended ==
  /\ Len(qa') = Len(qa) + 1
  /\ IsTimeoutPlaceholder(qa'[Len(qa')])

\* C4: the zero-score placeholder is appended for a question only when
\* that question's own countdown, measured from the start of its timer,
\* has run for TIME_LIMIT; in particular not for a question whose timer
\* starts in the very run that appends.
C4_TimeoutOnlyAfterOwnCountdown ==
  [][TimeoutAppended =>
       (timer_start # None /\ now - timer_start >= TIME_LIMIT)]_vars

\* C5: once the stage is "asking", every question is eventually resolved
\* and the session eventually reaches the stage "summary"; no step waits
\* for the grading service longer than GRADE_TIMEOUT.
C5_SessionReachesSummary ==
  /\ (stage = "asking") ~> (stage = "summary")
  /\ \A i \in 0..(Len(SessionQuestions) - 1) :
       (stage = "asking" /\ current_index = i) ~> (Len(qa) > i)
  /\ [][stage = "asking" /\ stage' = "asking" /\ timer_start' = None
          => now' - now <= GRADE_TIMEOUT]_vars

C5_Witness ==
  /\ stage = "summary"
  /\ Len(qa) = Len(SessionQuestions)
  /\ ~IsTimeoutPlaceholder(qa[1])
  /\ IsTimeoutPlaceholder(qa[Len(qa)])

\* C6: an MCQ scores 5 when the submitted index is the correct index and 2
\* otherwise, and the feedback of a wrong answer is "Incorrect. The correct
\* answer was: " followed by the text of the option at the correct index.
C6_McqGrading ==
  (Graded /\ g_in.qtype = "mcq") =>
    LET q == g_in.question
    IN  /\ g_out.raised = "none"
        /\ g_out.score = IF g_in.answer = q.correct THEN 5 ELSE 2
        /\ g_in.answer # q.correct =>
             g_out.feedback = <<"Incorrect. The correct answer was: ">>
                                \o q.options[q.correct + 1]

C6_Witness ==
  /\ Graded
  /\ g_in.qtype = "mcq"
  /\ g_in.question.correct = 2
  /\ g_in.answer = 0
  /\ g_out.score = 2
  /\ g_out.feedback = <<"Incorrect. The correct answer was: ", "C">>

\* the canonical answer and the alternatives of a fill-blank question
Accepted(q) ==
  {q.answer} \cup Range(Get(q, "alternative_answers", <<>>))

\* C7: fill-blank grading in three tiers: 5 for a case-insensitive,
\* trimmed exact match with the canonical answer or an alternative; else 3
\* when the canonical answer or an alternative is contained in the
\* submission regardless of case; else 1.
C7_FillBlankThreeTiers ==
  (Graded /\ g_in.qtype = "fill_blank") =>
    LET typed == Strip(Lower(g_in.answer))
        accepted == {Strip(Lower(a)) : a \in Accepted(g_in.question)}
    IN  g_out.score = IF typed \in accepted THEN 5
                      ELSE IF \E a \in accepted : Contains(typed, a) THEN 3
                      ELSE 1

\* sub is ans in some letter casing, surrounded by any whitespace
IsCasingVariation(sub, ans) ==
  \E lo \in 1..(Len(sub) + 1) :
    LET hi == lo + Len(ans) - 1
    IN  /\ hi <= Len(sub)
        /\ \A k \in 1..Len(ans) : LowerChar(sub[lo + k - 1]) = LowerChar(ans[k])
        /\ \A k \in 1..Len(sub) : (k < lo \/ k > hi) => IsSpace(sub[k])

\* sub shares no letter, in any casing, with the canonical answer or an
\* alternative
IsDisjoint(sub, q) ==
  \A a \in Accepted(q) :
    {LowerChar(c) : c \in Range(sub)} \cap {LowerChar(c) : c \in Range(a)} = {}

\* C8: the canonical answer in any letter casing and with any surrounding
\* whitespace scores 5, and a submission disjoint from the canonical answer
\* and from every alternative scores 1.
C8_CanonicalAndDisjoint ==
  (Graded /\ g_in.qtype = "fill_blank") =>
    /\ IsCasingVariation(g_in.answer, g_in.question.answer) => g_out.score = 5
    /\ IsDisjoint(g_in.answer, g_in.question) => g_out.score = 1

C8_Witness ==
  /\ Graded
  /\ g_in.qtype = "fill_blank"
  /\ g_in.question.answer = <<"A", "b">>
  /\ g_in.answer = <<"a", "b", " ">>
  /\ g_out.score = 5

\* C9: when the call to the grading service times out or raises, the
\* result is the local fallback: 3 with the feedback about being more
\* specific for an answer longer than FALLBACK_LENGTH, else 2 with the
\* feedback about more detail; nothing is raised.
C9_FallbackOnFailedCall ==
  (Graded /\ ViaService /\ CallRaised(g_in.resp)) =>
    /\ g_out.raised = "none"
    /\ IF Len(g_in.answer) > 50
       THEN /\ g_out.score = 3
            /\ g_out.feedback = <<"Good attempt. Consider being more specific.">>
       ELSE /\ g_out.score = 2
            /\ g_out.feedback = <<"Answer needs more detail and explanation.">>

C9_Witness ==
  /\ Graded
  /\ ViaService
  /\ g_in.resp.kind = "timeout"
  /\ Len(g_in.answer) = 50
  /\ g_out.score = 2

\* C10: a network failure, a status outside 2xx or a malformed payload of
\* the grading service is converted to a zero-score result with a
\* diagnostic feedback.
C10_UpstreamErrorGivesZero ==
  (Graded /\ ViaService
     /\ (CallRaised(g_in.resp) \/ NonOkStatus(g_in.resp) \/ MalformedPayload(g_in.resp)))
    => (g_out.raised = "none" /\ g_out.score = 0 /\ g_out.feedback # <<>>)

(***************************************************************************)
(* The grading server.                                                     *)
(***************************************************************************)
\* the endpoint has answered the request
Answered == s_out # NoResponse

\* the text of the model holds one JSON object with the members data
IsJsonObjectText(outcome, data) ==
  outcome.kind = "text" /\ outcome.text = <<LBrace, Members(data), RBrace>>

\* C11: with no credential configured (GEMINI_API_KEY missing or empty) a
\* grading request is answered, without a call of the model, with score 0
\* and the feedback that names the missing key.
C11_NoKeyShortCircuits ==
  (Answered /\ GEMINI_API_KEY = "") =>
    /\ s_out.score = 0
    /\ s_out.feedback = <<"No API key provided; cannot grade. Provide GEMINI_API_KEY.">>
    /\ model_calls = 0

C11_Witness ==
  /\ Answered
  /\ GEMINI_API_KEY = ""
  /\ IsJsonObjectText(s_in, [score |-> JInt(3), feedback |-> ServiceFeedback])
  /\ s_out.score = 0
  /\ model_calls = 0

\* the places of a text where a JSON object with members stands
DecodableObjects(text) ==
  {i \in DOMAIN text : /\ i + 2 <= Len(text)
                       /\ text[i] = LBrace
                       /\ text[i + 1].tok = "members"
                       /\ text[i + 2] = RBrace}

\* those of them whose score is an integer
IntegerScoreObjects(text) ==
  {i \in DecodableObjects(text) :
     /\ "score" \in DOMAIN text[i + 1].data
     /\ text[i + 1].data.score.kind = "int"}

\* C12: for any text the model returns, the score of the response is the
\* score of a JSON object of the text clamped into 0..5 when the text holds
\* a decodable JSON object with an integer score, and 0 when it holds none:
\* no object, no decodable one, a score that is not an integer, no score.
C12_DecodedScoreClampedOrZero ==
  (Answered /\ GEMINI_API_KEY # "" /\ s_in.kind = "text") =>
    LET found == IntegerScoreObjects(s_in.text)
    IN  IF found # {}
        THEN \E i \in found : s_out.score = ClampScore(s_in.text[i + 1].data.score.val)
        ELSE s_out.score = 0

(***************************************************************************)
(* The report.                                                             *)
(***************************************************************************)
\* generate_summary_report has returned
Reported == r_out # NoReport

\* the scores of a transcript, in its order
ScoresOf(qa_list) == [i \in 1..Len(qa_list) |-> Get(qa_list[i], "score", 0)]

\* C13: the report of an empty transcript is the placeholder report: its
\* average_score is 0 and its strengths and weaknesses are the non-empty
\* placeholder lists.
C13_EmptyTranscriptPlaceholder ==
  (Reported /\ r_in = <<>>) =>
    /\ r_out.average_score = 0
    /\ r_out.strengths = <<<<"No answers provided">>>>
    /\ r_out.weaknesses = <<<<"Provide answers to receive feedback">>>>
    /\ r_out.strengths # <<>>
    /\ r_out.weaknesses # <<>>

C13_Witness ==
  /\ Reported
  /\ r_in = <<>>
  /\ r_out.average_score = 0
  /\ Len(r_out.strengths) = 1

\* C14: for a non-empty transcript average_score is the mean of the scores
\* rounded to two decimals (in hundredths: no further than half a hundredth
\* from the mean); the scores 4, 2, 5 give 3.67, and overall_rating of it is
\* "Strong (Above Average)", the band from 3.5 up to but excluding 4.0.
C14_AverageIsRoundedMean ==
  (Reported /\ r_in # <<>>) =>
    LET n == Len(r_in)
        total == SumOver(ScoresOf(r_in), n)
        diff == 100 * total - n * r_out.average_score
    IN  /\ 2 * diff <= n
        /\ 2 * (0 - diff) <= n
        /\ ScoresOf(r_in) = <<4, 2, 5>> =>
             /\ r_out.average_score = 367
             /\ rating # NoRating =>
                  /\ avg_score = 367
                  /\ avg_score >= 350 /\ avg_score < 400
                  /\ rating = "Strong (Above Average)"

C14_Witness ==
  /\ Reported
  /\ ScoresOf(r_in) = <<4, 2, 5>>
  /\ r_out.average_score = 367
  /\ rating = "Strong (Above Average)"

\* the places of the Interactions of a transcript whose score is in scores
PlacesScoring(qa_list, scores) ==
  {i \in DOMAIN qa_list : ScoresOf(qa_list)[i] \in scores}

\* the k-th smallest of a set of places
KthPlace(places, k) ==
  CHOOSE i \in places : Cardinality({j \in places : j <= i}) = k

\* entries holds one entry for each of the places, in their order
EntriesOf(entries, qa_list, places) ==
  /\ Len(entries) = Cardinality(places)
  /\ \A k \in DOMAIN entries : entries[k] = Preview(qa_list[KthPlace(places, k)])

\* C16: for a non-empty transcript the strengths are the entries of the
\* Interactions with a score of at least 4 and the weaknesses those of the
\* Interactions with a score of at most 2, each in transcript order; an
\* Interaction with score 3 has no entry and none has two.  A list without
\* an entry holds its placeholder.
C16_StrengthWeaknessThresholds ==
  (Reported /\ r_in # <<>>) =>
    LET all == {ScoresOf(r_in)[i] : i \in DOMAIN r_in}
        strong == PlacesScoring(r_in, {sc \in all : sc >= 4})
        weak == PlacesScoring(r_in, {sc \in all : sc <= 2})
    IN  /\ strong \cap weak = {}
        /\ PlacesScoring(r_in, {3}) \cap (strong \cup weak) = {}
        /\ IF strong = {}
           THEN r_out.strengths = <<<<"Good overall understanding">>>>
           ELSE EntriesOf(r_out.strengths, r_in, strong)
        /\ IF weak = {}
           THEN r_out.weaknesses = <<<<"Room for improvement in advanced topics">>>>
           ELSE EntriesOf(r_out.weaknesses, r_in, weak)

C16_Witness ==
  /\ Reported
  /\ ScoresOf(r_in) = <<4, 3, 5>>
  /\ r_in[1].question = LongQuestion
  /\ r_in[3].question = ShortQuestion
  /\ r_out.strengths = <<Repeat("l", 50) \o <<"...">>, <<"Q", "1", "...">>>>
  /\ r_out.weaknesses = <<<<"Room for improvement in advanced topics">>>>

\* the times of a transcript, in its order
TimesOf(qa_list) ==
  [i \in 1..Len(qa_list) |-> Get(qa_list[i], "time_taken", TIME_LIMIT)]

\* C17: time_efficiency is never negative: it is the part of the budget of
\* 15 a question that the mean time_taken saves, as a percentage rounded to
\* one decimal (in tenths: no further than half a tenth from it), and 0
\* when the mean time_taken is over the budget.
C17_TimeEfficiencyNeverNegative ==
  Reported =>
    LET n == Len(r_in)
        budget == TIME_LIMIT * n
        total_time == SumOver(TimesOf(r_in), n)
        diff == 1000 * (budget - total_time) - budget * r_out.time_efficiency
    IN  /\ r_out.time_efficiency >= 0
        /\ IF total_time > budget THEN r_out.time_efficiency = 0
           ELSE 2 * diff <= budget /\ 2 * (0 - diff) <= budget

(***************************************************************************)
(* The rating.                                                             *)
(***************************************************************************)
\* overall_rating has returned
Rated == rating # NoRating

\* the six bands, the lowest first
Bands ==
  <<"Needs Improvement (Bottom 20%)", "Developing (Below Average)",
    "Competent (Average)", "Strong (Above Average)", "Excellent (Top 15%)",
    "Outstanding (Top 5%)">>

\* the boundaries, in hundredths: Boundaries[k] is where band k + 1 begins
Boundaries == <<200, 300, 350, 400, 450>>

\* the place of a band among the six
BandRank(band) == CHOOSE k \in DOMAIN Bands : Bands[k] = band

\* C18: overall_rating maps every average of 0..5 to exactly one of the six
\* bands; an average on a boundary (2.0, 3.0, 3.5, 4.0, 4.5) is in the higher
\* band and the average a hundredth below it in the lower one; a higher
\* average is never in a lower band.
C18_RatingBands ==
  Rated =>
    /\ Cardinality({k \in DOMAIN Bands : Bands[k] = rating}) = 1
    /\ \A k \in DOMAIN Boundaries :
         /\ avg_score = Boundaries[k] => rating = Bands[k + 1]
         /\ avg_score = Boundaries[k] - 1 => rating = Bands[k]
    /\ \A lower \in 0..avg_score :
         BandRank(overall_rating(lower)) <= BandRank(rating)

C18_Witness ==
  /\ Rated
  /\ avg_score = 450
  /\ rating = "Outstanding (Top 5%)"

(***************************************************************************)
(* The transcript of a session.                                            *)
(***************************************************************************)
IsPrefix(earlier, later) ==
  Len(earlier) <= Len(later) /\ SubSeq(later, 1, Len(earlier)) = earlier

\* "Start New Interview" is pressed
Restarts == stage = "summary" /\ stage' = "intro"

\* C19: within a session the transcript only grows at its end: every step
\* but the restart leaves the Interactions appended so far unchanged and in
\* place, the transcript before the step being a prefix of the one after.
C19_TranscriptAppendOnly == [][Restarts \/ IsPrefix(qa, qa')]_vars

C19_Witness ==
  /\ Len(qa) = 2
  /\ qa[1].score = 5
  /\ IsTimeoutPlaceholder(qa[2])

\* C20: the steps of a session are sequential: at most one call of
\* grade_answer is in flight, and while a call is in flight it is the call
\* for the current question, every question before it having its
\* Interaction in the transcript and current_index having moved past it.
C20_OneGradingCallAtATime ==
  /\ Len(in_flight) <= 1
  /\ in_flight # <<>> =>
       /\ in_flight[1].index = current_index
       /\ Len(qa) = current_index

C20_Witness ==
  /\ Len(in_flight) = 1
  /\ in_flight[1].index = 1
  /\ current_index = 1
  /\ Len(qa) = 1

(***************************************************************************)
(* The question listing.                                                   *)
(***************************************************************************)
\* GET /questions has answered
Listed == q_out # NoListing

\* C21: for every integer limit, negative, zero or large, the listing is the
\* first max(5, min(7, limit)) questions of the bank in ascending
\* difficulty: it holds between 5 and 7 questions of the bank, none twice,
\* its levels never decrease, and a question of the bank it leaves out is
\* not of a lower level than any it holds.
C21_ListingClampedAndSorted ==
  Listed =>
    LET bank == Range(SERVER_QUESTION_BANK)
        wanted == IF q_limit < 5 THEN 5 ELSE IF q_limit > 7 THEN 7 ELSE q_limit
    IN  /\ Len(q_out) = wanted
        /\ Len(q_out) >= 5 /\ Len(q_out) <= 7
        /\ Range(q_out) \subseteq bank
        /\ Cardinality(Range(q_out)) = Len(q_out)
        /\ \A i, j \in DOMAIN q_out :
             i < j => LevelIndex(q_out[i].level) <= LevelIndex(q_out[j].level)
        /\ \A left \in bank \ Range(q_out) : \A held \in Range(q_out) :
             LevelIndex(held.level) <= LevelIndex(left.level)

C21_Witness ==
  /\ Listed
  /\ q_limit < 0
  /\ Len(q_out) = 5
  /\ q_out[1].level = "basic"
  /\ q_out[5].level = "advanced"

(***************************************************************************)
(* The session.                                                            *)
(***************************************************************************)
\* the correct index of an MCQ names one of its options
ValidCorrectIndex(q) ==
  q.type = "mcq" => (q.correct >= 0 /\ q.correct < Len(q.options))

\* C22: every MCQ of the bank has a correct index that names one of its
\* options, and the questions of the session are the bank as it was loaded
\* in every state a session reaches, whatever was started, submitted, timed
\* out, summarised or restarted.
C22_BankValidAndImmutable ==
  /\ \A i \in DOMAIN QUESTION_BANK : ValidCorrectIndex(QUESTION_BANK[i])
  /\ \A i \in DOMAIN questions : ValidCorrectIndex(questions[i])
  /\ questions = SessionQuestions

C22_Witness ==
  /\ stage = "summary"
  /\ pdf_bytes.generated
  /\ IsTimeoutPlaceholder(qa[Len(qa)])
  /\ questions[1].type = "mcq"
  /\ questions[1].correct = 1
  /\ Len(questions[1].options) = 4

\* C23: "Start New Interview" leaves the state of a fresh session: stage
\* 'intro', current_index 0, an empty transcript, no PDF, time_remaining 15,
\* answer_submitted false, and every other key as init_state sets it.
C23_RestartGivesFreshSession ==
  [][Restarts =>
       /\ stage' = "intro"
       /\ questions' = SessionQuestions
       /\ current_index' = 0
       /\ qa' = <<>>
       /\ pdf_bytes' = NoPdf
       /\ pdf_name' = NoPdfName
       /\ candidate' = [name |-> <<>>]
       /\ timer_start' = None
       /\ time_remaining' = TIME_LIMIT
       /\ answer_submitted' = FALSE
       /\ followup_pending' = FALSE
       /\ followup_for_index' = 0 - 1]_vars

\* a session has been restarted: the clock has moved and nothing is left
C23_Witness ==
  /\ stage = "intro"
  /\ now > MaxStartClock
  /\ qa = <<>>
  /\ pdf_bytes = NoPdf

\* C26: every Interaction of the transcript has a time_taken from 0 to the
\* budget of 15, the one a submission appends (15 minus the remaining time)
\* and the placeholder of a timeout.
C26_TimeTakenWithinBudget ==
  \A i \in DOMAIN qa : qa[i].time_taken >= 0 /\ qa[i].time_taken <= TIME_LIMIT

C26_Witness ==
  /\ Len(qa) = 2
  /\ ~IsTimeoutPlaceholder(qa[1])
  /\ qa[1].time_taken > 0
  /\ qa[1].time_taken < TIME_LIMIT
  /\ IsTimeoutPlaceholder(qa[2])
  /\ qa[2].time_taken = TIME_LIMIT

\* C28: the stage moves only from intro to asking, from asking to summary
\* and, by the restart, from summary to intro; it becomes 'asking' only with
\* a name that is not empty after trimming and 'summary' only when
\* current_index has reached the number of questions; current_index never
\* decreases while a session lasts and never exceeds the number of questions.
C28_StageOrder ==
  [][/\ stage' # stage =>
          \/ /\ stage = "intro"
             /\ stage' = "asking"
             /\ candidate'.name # <<>>
             /\ candidate'.name = Strip(candidate'.name)
          \/ /\ stage = "asking"
             /\ stage' = "summary"
             /\ current_index = Len(questions)
          \/ /\ stage = "summary"
             /\ stage' = "intro"
     /\ ~Restarts => current_index' >= current_index
     /\ current_index' <= Len(questions')]_vars

C28_Witness ==
  /\ stage = "summary"
  /\ current_index = Len(questions)
  /\ candidate.name = <<"A", "l">>

\* C29: in the stage 'summary' the transcript holds as many Interactions as
\* there are questions, so it is not empty and the total the accuracy is
\* divided by is not 0.
C29_SummaryHasFullTranscript ==
  stage = "summary" => (Len(qa) = Len(questions) /\ Len(qa) > 0)

C29_Witness ==
  /\ stage = "summary"
  /\ Len(qa) = Len(questions)
  /\ \A i \in DOMAIN qa : ~IsTimeoutPlaceholder(qa[i])

(***************************************************************************)
(* The breakdowns.                                                         *)
(***************************************************************************)
\* the breakdown functions have returned
Analyzed == a_out.called

\* group is the group of the Interactions of qa_list at places: it counts
\* them and its average is the mean of their scores
IsGroupOf(group, qa_list, places) ==
  LET scores == [i \in DOMAIN qa_list |-> Get(qa_list[i], "score", 0)]
      total == SumOver(PickUpTo(scores, places, Len(qa_list)), Cardinality(places))
  IN  /\ group.count = Cardinality(places)
      /\ group.average.num * Cardinality(places) = total * group.average.den

\* the category the claim gives an Interaction: its tag if it has one (an
\* empty tag is none), else the category of the words of its question
DeclaredOrInferred(qa_item) ==
  IF Get(qa_item, "category", "") # "" THEN qa_item.category
  ELSE InferCategory(Get(qa_item, "question", <<>>))

\* C24: the category breakdown of a non-empty transcript has one group for
\* every category of its Interactions, an Interaction being in the group of
\* its explicit category tag when it has one and in the group inferred from
\* the words of its question only when it has none; the count of a group is
\* the number of its Interactions, its average the mean of their scores, and
\* the counts add up to the length of the transcript.
C24_CategoryBreakdown ==
  (Analyzed /\ a_in # <<>>) =>
    LET groups == a_out.category_breakdown
        expected == [i \in DOMAIN a_in |-> DeclaredOrInferred(a_in[i])]
    IN  /\ DOMAIN groups = Range(expected)
        /\ \A k \in DOMAIN groups :
             IsGroupOf(groups[k], a_in, {i \in DOMAIN a_in : expected[i] = k})

\* C25: the difficulty breakdown of the PDF report of a finished session has
\* a group for every level (basic, intermediate, advanced) a question of the
\* session declares, and the group of a level counts the Interactions that
\* answer the questions of that level and averages their scores.
C25_DifficultyBreakdown ==
  (stage = "summary" /\ pdf_bytes.generated) =>
    LET groups == pdf_bytes.difficulty_analysis
        declared == [i \in DOMAIN qa |-> questions[i].level]
    IN  /\ DOMAIN groups = Range(declared)
        /\ \A level \in DOMAIN groups :
             IsGroupOf(groups[level], qa, {i \in DOMAIN qa : declared[i] = level})

\* C30: for a non-empty transcript whose Interactions all have a time_taken,
\* total_time, average_time_per_question, fastest_response and
\* slowest_response are the sum, the mean, the least and the greatest
\* time_taken of all its Interactions, those with a time_taken of 0 included.
C30_TimeAnalysisOverAll ==
  (Analyzed /\ a_in # <<>> /\ \A i \in DOMAIN a_in : "time_taken" \in DOMAIN a_in[i]) =>
    LET times == [i \in DOMAIN a_in |-> a_in[i].time_taken]
        total == SumOver(times, Len(times))
        analysis == a_out.time_analysis
    IN  /\ analysis.total_time = total
        /\ analysis.average_time_per_question.num * Len(times)
             = total * analysis.average_time_per_question.den
        /\ \A i \in DOMAIN times : analysis.fastest_response <= times[i]
        /\ \A i \in DOMAIN times : analysis.slowest_response >= times[i]
        /\ analysis.fastest_response \in Range(times)
        /\ analysis.slowest_response \in Range(times)

====
